---------------------------- MODULE Spec2Model ----------------------------
(***************************************************************************)
(* Model of the product catalogue backend (src/main.py): the product       *)
(* routes of the FastAPI application, the document-to-response mapping     *)
(* and the startup seeder, over a document store holding the "product"     *)
(* collection.                                                             *)
(*                                                                         *)
(* The store adapter (database.py: db, create_document, get_documents) and *)
(* the schema (schemas.py: Product) are imported by main.py but are not    *)
(* part of the sources; they are modelled from sections 3, 4.1 and 4.2 of  *)
(* the specification.                                                      *)
(***************************************************************************)
EXTENDS Integers, Sequences, FiniteSets, TLC

VARIABLES
    dbAvailable,  \* the module-level handle `db` is not None
    products,     \* the "product" collection, in store (insertion) order
    nextOid,      \* the next ObjectId the store assigns
    clock,        \* the store's creation timestamp source
    pc,           \* per seeder run: "idle", "loop" or "done"
    idx,          \* per seeder run: position in `samples` (1-based)
    sawCount,     \* per seeder run: result of count_documents, -1 if none
    attempted,    \* per seeder run: samples whose insertion was attempted
    raised,       \* per seeder run: an exception escaped the coroutine
    seeded,       \* the documents inserted by seeder runs: [run, oid]
    overlap,      \* a seeder run started while another was inside its loop
    faultsLeft,   \* store errors the environment may still inject
    posts,        \* POST requests served so far
    req,          \* the last HTTP request
    resp,         \* the response to it
    seen          \* size of the collection when it was served

vars == <<dbAvailable, products, nextOid, clock, pc, idx, sawCount, attempted,
          raised, seeded, overlap, faultsLeft, posts, req, resp, seen>>

(***************************************************************************)
(* Bounds of the model.                                                    *)
(***************************************************************************)
OidLen == 2          \* hex digits of an ObjectId string (24 in bson)
MaxPosts == 1        \* POST /api/products requests in a behaviour
MaxFailures == 1     \* store errors injected in a behaviour of an unreliable store
MaxLookupId == 2     \* GET /api/products/{id} asks for ids 1..MaxLookupId

Seeders == {"run1", "run2"}   \* two startup runs against the same store

(***************************************************************************)
(* Generic helpers.                                                        *)
(***************************************************************************)
Null == "<null>"     \* Python's None / JSON null

\* dict.get(key, default)
Get(doc, key, default) == IF key \in DOMAIN doc THEN doc[key] ELSE default

\* The first `n` elements of a sequence (cursor.limit(n)).
Take(s, n) == SubSeq(s, 1, IF Len(s) < n THEN Len(s) ELSE n)

RECURSIVE Filter(_, _)
\* Documents of `s` that match every key of the exact-match filter `f`.
Filter(s, f) ==
    IF s = <<>> THEN <<>>
    ELSE LET d == Head(s)
             hit == \A k \in DOMAIN f : k \in DOMAIN d /\ d[k] = f[k]
         IN  (IF hit THEN <<d>> ELSE <<>>) \o Filter(Tail(s), f)

(***************************************************************************)
(* Numbers: a JSON / Python number is an int or a float.                   *)
(***************************************************************************)
IntNum(n) == [t |-> "int", v |-> n]
FloatNum(n) == [t |-> "float", v |-> n]

\* float(x)
Float(x) == [t |-> "float", v |-> x.v]

\* bool(x)
Bool(x) == x = TRUE

(***************************************************************************)
(* ObjectId <-> string.                                                    *)
(***************************************************************************)
HexDigits == <<"0", "1", "2", "3", "4", "5", "6", "7",
               "8", "9", "a", "b", "c", "d", "e", "f">>

HexValue(c) == (CHOOSE i \in 1..16 : HexDigits[i] = c) - 1

IsHex(c) == \E i \in 1..16 : HexDigits[i] = c

RECURSIVE Pow16(_)
Pow16(k) == IF k = 0 THEN 1 ELSE 16 * Pow16(k - 1)

\* str(oid): the fixed-width lower-case hex form.
OidStr(oid) ==
    [i \in 1..OidLen |-> HexDigits[((oid \div Pow16(OidLen - i)) % 16) + 1]]

\* ObjectId(s) accepts exactly the hex strings of the full width.
OidValid(s) == Len(s) = OidLen /\ \A i \in 1..Len(s) : IsHex(s[i])

RECURSIVE OidParse(_)
\* ObjectId(s) for a valid s.
OidParse(s) ==
    IF s = <<>> THEN 0
    ELSE 16 * OidParse(SubSeq(s, 1, Len(s) - 1)) + HexValue(s[Len(s)])

(***************************************************************************)
(* Schema and store adapter.                                               *)
(***************************************************************************)
\* schemas.Product(**fields): title non-empty, price non-negative.
SchemaValid(p) == p.title # "" /\ p.price.v >= 0

\* The document create_document stores for a validated record.
NewDoc(p, oid, now) ==
    [_id |-> oid, title |-> p.title, description |-> p.description,
     price |-> p.price, category |-> p.category, in_stock |-> p.in_stock,
     created_at |-> now]

\* get_documents(collection, filters, limit)
GetDocuments(coll, filters, limit) == Take(Filter(coll, filters), limit)

\* collection.find_one({"_id": oid})
FindOne(coll, oid) ==
    LET hits == Filter(coll, [_id |-> oid])
    IN  IF hits = <<>> THEN <<>> ELSE <<Head(hits)>>

RECURSIVE InsertDesc(_, _)
InsertDesc(d, s) ==
    IF s = <<>> THEN <<d>>
    ELSE IF d.created_at > Head(s).created_at THEN <<d>> \o s
         ELSE <<Head(s)>> \o InsertDesc(d, Tail(s))

RECURSIVE SortDesc(_)
\* cursor.sort("created_at", -1)
SortDesc(s) == IF s = <<>> THEN <<>> ELSE InsertDesc(Head(s), SortDesc(Tail(s)))

(***************************************************************************)
(* Request parsing done by the framework before a handler runs.            *)
(***************************************************************************)
\* An optional value is a sequence of length 0 (absent / None) or 1.
None == <<>>
Some(x) == <<x>>

\* Query(default, ge=lo, le=hi): the value, or <<>> when it is rejected.
QueryInt(q, default, lo, hi) ==
    IF q = None THEN Some(default)
    ELSE IF q[1] >= lo /\ q[1] <= hi THEN q ELSE None

\* ProductCreate: title, price and category are required.
BodyValid(b) == {"title", "price", "category"} \subseteq DOMAIN b

\* ProductCreate(**body).model_dump(): defaults filled in, price a float.
ProductCreate(b) ==
    [title |-> b.title, description |-> Get(b, "description", Null),
     price |-> Float(b.price), category |-> b.category,
     in_stock |-> Get(b, "in_stock", TRUE)]

(***************************************************************************)
(* Responses.                                                              *)
(***************************************************************************)
NoBody == [none |-> TRUE]

Response(route, status, detail, body, id, calls) ==
    [route |-> route, status |-> status, detail |-> detail, body |-> body,
     id |-> id, calls |-> calls]

\* raise HTTPException(status_code, detail): a JSON body {"detail": ...}
HTTPException(route, status, detail, calls) ==
    Response(route, status, detail, <<>>, <<>>, calls)

\* The framework rejects the request before the handler is entered.
Unprocessable(route) ==
    Response(route, 422, "validation error", <<>>, <<>>, 0)

\* An exception nobody handles: a bare 500 without a JSON detail.
ServerError(route, calls) == Response(route, 500, Null, <<>>, <<>>, calls)

NotRouted == Response("none", 404, "Not Found", <<>>, <<>>, 0)

Ok(route, body, id, calls) == Response(route, 200, Null, body, id, calls)

(***************************************************************************)
(* Document -> ProductOut.                                                 *)
(***************************************************************************)
\* Mutant: the stored in_stock flag is dropped, the default is reported.
ProductDocToOutDefaultStock(doc) ==
    [id |-> OidStr(Get(doc, "_id", 0)),
     title |-> Get(doc, "title", Null),
     description |-> Get(doc, "description", Null),
     price |-> Float(Get(doc, "price", IntNum(0))),
     category |-> Get(doc, "category", Null),
     in_stock |-> TRUE]

_product_doc_to_out(doc) ==
    [id |-> OidStr(Get(doc, "_id", 0)),
     title |-> Get(doc, "title", Null),
     description |-> Get(doc, "description", Null),
     price |-> Float(Get(doc, "price", IntNum(0))),
     category |-> Get(doc, "category", Null),
     in_stock |-> Bool(Get(doc, "in_stock", TRUE))]

OutList(docs) == [i \in 1..Len(docs) |-> _product_doc_to_out(docs[i])]

(***************************************************************************)
(* Read-only handlers, as functions of the store.                          *)
(***************************************************************************)
\* Python truthiness of an Optional[str]: None and "" are both false.
Truthy(category) == category # None /\ category[1] # ""

\* Mutant: the category is never put into the filter map.
ListFiltersNone(category) == <<>>

ListFilters(category) ==
    IF Truthy(category) THEN [category |-> category[1]] ELSE <<>>

list_products(category, limit) ==
    IF ~dbAvailable
    THEN HTTPException("list_products", 500, "Database not available", 0)
    ELSE Ok("list_products",
            OutList(GetDocuments(products, ListFilters(category), limit)),
            <<>>, 1)

\* Mutant: a malformed id is reported as a missing product.
GetProductNoIdCheck(product_id) ==
    IF ~dbAvailable
    THEN HTTPException("get_product", 500, "Database not available", 0)
    ELSE LET doc == IF OidValid(product_id)
                    THEN FindOne(products, OidParse(product_id)) ELSE <<>>
         IN  IF doc = <<>>
             THEN HTTPException("get_product", 404, "Product not found", 1)
             ELSE Ok("get_product", <<_product_doc_to_out(doc[1])>>, <<>>, 1)

get_product(product_id) ==
    IF ~dbAvailable
    THEN HTTPException("get_product", 500, "Database not available", 0)
    ELSE IF ~OidValid(product_id)
    THEN HTTPException("get_product", 400, "Invalid product id", 0)
    ELSE LET doc == FindOne(products, OidParse(product_id))
         IN  IF doc = <<>>
             THEN HTTPException("get_product", 404, "Product not found", 1)
             ELSE Ok("get_product", <<_product_doc_to_out(doc[1])>>, <<>>, 1)

featured_products(limit) ==
    IF ~dbAvailable
    THEN HTTPException("featured_products", 500, "Database not available", 0)
    ELSE Ok("featured_products",
            OutList(Take(SortDesc(Filter(products, [in_stock |-> TRUE])), limit)),
            <<>>, 1)

(***************************************************************************)
(* Routing: the first registered route that matches serves the request.    *)
(***************************************************************************)
Featured == <<"f", "e", "a", "t", "u", "r", "e", "d">>

\* Product routes in registration order; `seg` is the path segment after
\* /api/products ("" for none, "{}" for a path parameter).
Routes ==
    << [method |-> "GET",  seg |-> <<>>,       handler |-> "list_products"],
       [method |-> "GET",  seg |-> <<"{}">>,   handler |-> "get_product"],
       [method |-> "POST", seg |-> <<>>,       handler |-> "create_product"],
       [method |-> "GET",  seg |-> Featured,   handler |-> "featured_products"] >>

Matches(r, method, seg) ==
    /\ r.method = method
    /\ IF r.seg = <<"{}">> THEN seg # <<>> ELSE r.seg = seg

Route(method, seg) ==
    LET hits == {i \in 1..Len(Routes) : Matches(Routes[i], method, seg)}
    IN  IF hits = {} THEN "none"
        ELSE Routes[CHOOSE i \in hits : \A j \in hits : i <= j].handler

\* GET /api/products[/seg]?category=..&limit=..
HandleGet(seg, category, limit) ==
    LET route == Route("GET", seg)
    IN  CASE route = "list_products" ->
                LET n == QueryInt(limit, 24, 1, 100)
                IN  IF n = None THEN Unprocessable(route)
                    ELSE list_products(category, n[1])
          [] route = "get_product" -> get_product(seg)
          [] route = "featured_products" ->
                LET n == QueryInt(limit, 6, 1, 24)
                IN  IF n = None THEN Unprocessable(route)
                    ELSE featured_products(n[1])
          [] OTHER -> NotRouted

(***************************************************************************)
(* The seeder's fixed sample list.                                         *)
(***************************************************************************)
Sample(title, description, price, category) ==
    [title |-> title, description |-> description, price |-> price,
     category |-> category, in_stock |-> TRUE]

\* Mutant: the last sample is missing from the list.
SamplesShort ==
    << Sample("Aurora Pro Headphones",
              "Wireless noise-cancelling over-ear with studio clarity.",
              FloatNum(19999), "audio"),
       Sample("Nebula Smartwatch X",
              "AMOLED display, 7-day battery, health suite.",
              FloatNum(24900), "wearables"),
       Sample("Lumen Desk Lamp",
              "Touch dimming, USB-C hub, minimalist aluminum.",
              FloatNum(8900), "home"),
       Sample("Orbit Mechanical Keyboard",
              "Hot-swap switches, RGB underglow, CNC chassis.",
              FloatNum(15900), "peripherals"),
       Sample("Voyager Sling Bag",
              "Water-resistant, magnetic latches, tech-ready.",
              FloatNum(7900), "travel") >>

\* Prices in cents; 199.99, 249.0, 89.0, 159.0, 79.0, 69.0 in the source.
samples ==
    << Sample("Aurora Pro Headphones",
              "Wireless noise-cancelling over-ear with studio clarity.",
              FloatNum(19999), "audio"),
       Sample("Nebula Smartwatch X",
              "AMOLED display, 7-day battery, health suite.",
              FloatNum(24900), "wearables"),
       Sample("Lumen Desk Lamp",
              "Touch dimming, USB-C hub, minimalist aluminum.",
              FloatNum(8900), "home"),
       Sample("Orbit Mechanical Keyboard",
              "Hot-swap switches, RGB underglow, CNC chassis.",
              FloatNum(15900), "peripherals"),
       Sample("Voyager Sling Bag",
              "Water-resistant, magnetic latches, tech-ready.",
              FloatNum(7900), "travel"),
       Sample("Quanta Power Bank 20K",
              "PD 65W fast charge, slim metal body.",
              FloatNum(6900), "power") >>

NumSamples == Len(samples)

(***************************************************************************)
(* Inputs.                                                                 *)
(***************************************************************************)
PayloadInputs ==
    { [title |-> "Widget", price |-> IntNum(500), category |-> "audio"],
      [title |-> "Gadget", description |-> "A gadget.", price |-> FloatNum(250),
       category |-> "home", in_stock |-> FALSE],
      [title |-> "Widget", category |-> "audio"],
      [title |-> "", price |-> IntNum(500), category |-> "audio"] }

CategoryInputs == {None, Some(""), Some("audio")}

LimitInputs == {None, Some(1)}

BadLimitInputs == {Some(-1), Some(0), Some(101)}

\* <<category, limit>> of a GET /api/products
ListInputs ==
    (CategoryInputs \X LimitInputs) \cup ({None} \X BadLimitInputs)

FeaturedLimitInputs == {None, Some(25)}

IdInputs ==
    {OidStr(k) : k \in 1..MaxLookupId}
        \cup {[i \in 1..OidLen |-> "g"], [i \in 1..(OidLen + 1) |-> "0"]}

Request(method, seg, category, limit, body) ==
    [method |-> method, seg |-> seg, category |-> category, limit |-> limit,
     body |-> body]

(***************************************************************************)
(* Initial state: the process has been imported; the store handle is       *)
(* either connected or None, the collection is empty.  `faults` is the     *)
(* number of store errors the environment injects into seeder runs.        *)
(***************************************************************************)
InitWith(faults) ==
    /\ dbAvailable \in BOOLEAN
    /\ products = <<>>
    /\ nextOid = 1
    /\ clock = 1
    /\ pc = [s \in Seeders |-> "idle"]
    /\ idx = [s \in Seeders |-> 1]
    /\ sawCount = [s \in Seeders |-> -1]
    /\ attempted = [s \in Seeders |-> 0]
    /\ raised = [s \in Seeders |-> FALSE]
    /\ seeded = {}
    /\ overlap = FALSE
    /\ faultsLeft = faults
    /\ posts = 0
    /\ req = Request("none", <<>>, None, None, NoBody)
    /\ resp = Response("none", 0, Null, <<>>, <<>>, 0)
    /\ seen = 0

(***************************************************************************)
(* create_document: the store assigns the id and the creation timestamp.   *)
(***************************************************************************)
Insert(p) ==
    /\ products' = Append(products, NewDoc(p, nextOid, clock))
    /\ nextOid' = nextOid + 1
    /\ clock' = clock + 1

(***************************************************************************)
(* seed_products_on_startup.                                               *)
(***************************************************************************)
\* Mutant: the emptiness test is dropped, every run seeds.
SeedAfterCountAlways(count) == "loop"

\* Mutant: the run tops the collection up whenever it holds fewer documents
\* than there are samples.
SeedAfterCountTopUp(count) == IF count < NumSamples THEN "loop" ELSE "done"

\* `if count == 0:` - where the run goes after a successful count.
SeedAfterCount(count) == IF count = 0 THEN "loop" ELSE "done"

\* The outer `except Exception: pass`: the run ends, nothing is raised.
SeedOnCountError == [pc |-> "done", raised |-> FALSE]

\* Mutant: a failing sample ends the loop (no inner try/except).
SeedOnInsertErrorAbort(i) == [pc |-> "done", raised |-> FALSE]

\* The inner `except Exception: continue`: go on with the next sample.
SeedOnInsertError(i) ==
    [pc |-> IF i < NumSamples THEN "loop" ELSE "done", raised |-> FALSE]

\* `if db is None: return`, then count_documents({}) and the test on it.
SeedStart(s) ==
    /\ pc[s] = "idle"
    /\ overlap' = (overlap \/ \E t \in Seeders \ {s} : pc[t] = "loop")
    /\ \/ /\ ~dbAvailable
          /\ pc' = [pc EXCEPT ![s] = "done"]
          /\ UNCHANGED <<sawCount, faultsLeft, raised>>
       \/ /\ dbAvailable
          /\ sawCount' = [sawCount EXCEPT ![s] = Len(products)]
          /\ pc' = [pc EXCEPT ![s] = SeedAfterCount(Len(products))]
          /\ UNCHANGED <<faultsLeft, raised>>
       \/ /\ dbAvailable
          /\ faultsLeft > 0
          /\ faultsLeft' = faultsLeft - 1
          /\ pc' = [pc EXCEPT ![s] = SeedOnCountError.pc]
          /\ raised' = [raised EXCEPT ![s] = SeedOnCountError.raised]
          /\ UNCHANGED sawCount
    /\ UNCHANGED <<dbAvailable, products, nextOid, clock, idx, attempted,
                   seeded, posts, req, resp, seen>>

\* One iteration of `for s in samples:`.
SeedInsert(s) ==
    /\ pc[s] = "loop"
    /\ attempted' = [attempted EXCEPT ![s] = @ + 1]
    /\ idx' = [idx EXCEPT ![s] = @ + 1]
    /\ \/ /\ SchemaValid(samples[idx[s]])
          /\ Insert(samples[idx[s]])
          /\ seeded' = seeded \cup {[run |-> s, oid |-> nextOid]}
          /\ pc' = [pc EXCEPT ![s] = IF idx[s] < NumSamples THEN "loop" ELSE "done"]
          /\ UNCHANGED <<faultsLeft, raised>>
       \/ /\ \/ ~SchemaValid(samples[idx[s]]) /\ UNCHANGED faultsLeft
             \/ faultsLeft > 0 /\ faultsLeft' = faultsLeft - 1
          /\ pc' = [pc EXCEPT ![s] = SeedOnInsertError(idx[s]).pc]
          /\ raised' = [raised EXCEPT ![s] = SeedOnInsertError(idx[s]).raised]
          /\ UNCHANGED <<products, nextOid, clock, seeded>>
    /\ UNCHANGED <<dbAvailable, sawCount, overlap, posts, req, resp, seen>>

SeedStep(s) == SeedStart(s) \/ SeedInsert(s)

(***************************************************************************)
(* POST /api/products                                                      *)
(***************************************************************************)
create_product(b) ==
    /\ posts < MaxPosts
    /\ posts' = posts + 1
    /\ req' = Request("POST", <<>>, None, None, b)
    /\ IF ~BodyValid(b)
       THEN /\ resp' = Unprocessable("create_product")
            /\ UNCHANGED <<products, nextOid, clock>>
       ELSE IF ~SchemaValid(ProductCreate(b))
       THEN /\ resp' = ServerError("create_product", 0)
            /\ UNCHANGED <<products, nextOid, clock>>
       ELSE IF ~dbAvailable
       THEN /\ resp' = ServerError("create_product", 1)
            /\ UNCHANGED <<products, nextOid, clock>>
       ELSE /\ Insert(ProductCreate(b))
            /\ resp' = Ok("create_product", <<>>, OidStr(nextOid), 1)
    /\ seen' = Len(products')
    /\ UNCHANGED <<dbAvailable, pc, idx, sawCount, attempted, raised, seeded,
                   overlap, faultsLeft>>

(***************************************************************************)
(* GET requests: routed, validated, handled; the store is only read.       *)
(***************************************************************************)
GetRequest(seg, category, limit) ==
    /\ req' = Request("GET", seg, category, limit, NoBody)
    /\ resp' = HandleGet(seg, category, limit)
    /\ seen' = Len(products)
    /\ UNCHANGED <<dbAvailable, products, nextOid, clock, pc, idx, sawCount,
                   attempted, raised, seeded, overlap, faultsLeft, posts>>

\* A startup run that begins while no other run is inside its loop:
\* the process is restarted, never started twice at once.
RestartSeedStep(s) ==
    /\ \A t \in Seeders \ {s} : pc[t] # "loop"
    /\ SeedStep(s)

RestartSeed == \E s \in Seeders : RestartSeedStep(s)

\* Startup runs of processes started at once against the same store.
RaceSeed == \E s \in Seeders : SeedStep(s)

Post == \E b \in PayloadInputs : create_product(b)

GetList == \E q \in ListInputs : GetRequest(<<>>, q[1], q[2])

GetById == \E id \in IdInputs : GetRequest(id, None, None)

GetFeatured == \E n \in FeaturedLimitInputs : GetRequest(Featured, None, n)

(***************************************************************************)
(* Spec: a reliable store; the process (re)starts and serves traffic.      *)
(***************************************************************************)
Init == InitWith(0)

Next == RestartSeed \/ Post \/ GetList \/ GetById \/ GetFeatured

Spec == Init /\ [][Next]_vars

(***************************************************************************)
(* RestartSpec: an unreliable store; restarts and POST traffic.            *)
(***************************************************************************)
FaultyInit == InitWith(MaxFailures)

RestartNext == RestartSeed \/ Post

RestartSpec == FaultyInit /\ [][RestartNext]_vars

\* The startup coroutine is awaited to completion by the server.
FairRestartSpec ==
    RestartSpec /\ \A s \in Seeders : WF_vars(RestartSeedStep(s))

(***************************************************************************)
(* RaceSpec: an unreliable store; two processes start at once.             *)
(***************************************************************************)
RaceNext == RaceSeed

RaceSpec == FaultyInit /\ [][RaceNext]_vars

(***************************************************************************)
(* Vocabulary of the properties.                                           *)
(***************************************************************************)
SeededBy(s) == {d \in seeded : d.run = s}

\* The response was computed from the collection as it is now.
Fresh == seen = Len(products)

IsGet(handler) == req.method = "GET" /\ Route("GET", req.seg) = handler

\* A ProductOut carries the five fields of the record `p`.
SameFields(out, p) ==
    /\ out.title = p.title
    /\ out.description = Get(p, "description", Null)
    /\ out.price.v = p.price.v
    /\ out.category = p.category
    /\ out.in_stock = Get(p, "in_stock", TRUE)

\* Some step served a GET request routed to `handler`.
GetStep(handler) ==
    /\ <<req, resp, seen>>' # <<req, resp, seen>>
    /\ req'.method = "GET"
    /\ Route("GET", req'.seg) = handler

(***************************************************************************)
(* C1. Seeder idempotence: a startup run that begins while the collection  *)
(* holds at least one document (left by a seed, a partial seed or a POST)  *)
(* ends at once and leaves the collection as it was; a run that counted a  *)
(* non-empty collection never inserts; and of two runs in sequence at most *)
(* one inserts, so the second leaves exactly what the first left.          *)
(***************************************************************************)
C1_StartOnNonEmpty ==
    \A s \in Seeders :
        (pc[s] = "idle" /\ pc'[s] # "idle" /\ Len(products) > 0)
            => (products' = products /\ pc'[s] = "done")

C1_SeederIdempotent ==
    /\ [][C1_StartOnNonEmpty]_vars
    /\ [](\A s \in Seeders : sawCount[s] > 0 => SeededBy(s) = {})
    /\ [](\A s, t \in Seeders :
            (s # t /\ SeededBy(s) # {}) => SeededBy(t) = {})

\* Both runs are over; the first seeded, the second counted its documents.
C1_Witness ==
    \E s, t \in Seeders :
        /\ s # t /\ pc[s] = "done" /\ pc[t] = "done"
        /\ SeededBy(s) # {} /\ sawCount[t] > 0
        /\ Len(products) = Cardinality(SeededBy(s)) + posts

(***************************************************************************)
(* C8. The seeder never raises and always ends: with no store handle or a  *)
(* failed count it attempts and inserts nothing; once it has counted an    *)
(* empty collection it attempts every sample, whichever of them fail; and  *)
(* every run eventually is done.                                           *)
(***************************************************************************)
C8_Safe ==
    \A s \in Seeders :
        /\ ~raised[s]
        /\ sawCount[s] = -1 => (attempted[s] = 0 /\ SeededBy(s) = {})
        /\ (pc[s] = "done" /\ sawCount[s] = 0) => attempted[s] = NumSamples

C8_SeederNeverBlocksStartup ==
    /\ []C8_Safe
    /\ <>(\A s \in Seeders : pc[s] = "done")

\* A run is over in which a sample failed and the later ones were inserted.
C8_Witness ==
    \E s \in Seeders :
        /\ pc[s] = "done" /\ sawCount[s] = 0 /\ attempted[s] = NumSamples
        /\ Cardinality(SeededBy(s)) = NumSamples - 1
        /\ products[Len(products)].title = samples[NumSamples].title

(***************************************************************************)
(* C10. Count and inserts are not atomic: as long as no run has started    *)
(* while another was inside its loop, at most NumSamples documents are     *)
(* seeded; when runs overlap, both may count zero and both insert.         *)
(***************************************************************************)
C10_SequentialSeedsOnce == ~overlap => Cardinality(seeded) <= NumSamples

\* Both runs counted zero and each inserted every sample: 12 documents,
\* every sample twice.
C10_Witness ==
    /\ overlap
    /\ \A s \in Seeders : sawCount[s] = 0
    /\ Cardinality(seeded) = 2 * NumSamples
    /\ \A i \in 1..NumSamples :
          Cardinality({j \in 1..Len(products) :
                          products[j].title = samples[i].title}) = 2

(***************************************************************************)
(* C2. With the store available, a run that counted an empty collection    *)
(* and is over has inserted exactly the 6 fixed samples, and a GET         *)
(* /api/products without category and limit served after it answers 200    *)
(* with all 6 of them.                                                     *)
(***************************************************************************)
SeededTitles(s) ==
    {products[j].title : j \in {j \in 1..Len(products) :
                                   [run |-> s, oid |-> products[j]._id] \in seeded}}

C2_SeedsSixAndListsThem ==
    \A s \in Seeders :
        (dbAvailable /\ pc[s] = "done" /\ sawCount[s] = 0) =>
            /\ Cardinality(SeededBy(s)) = 6
            /\ SeededTitles(s) =
                  {"Aurora Pro Headphones", "Nebula Smartwatch X",
                   "Lumen Desk Lamp", "Orbit Mechanical Keyboard",
                   "Voyager Sling Bag", "Quanta Power Bank 20K"}
            /\ (IsGet("list_products") /\ req.category = None
                    /\ req.limit = None /\ Fresh) =>
                  /\ resp.status = 200
                  /\ \A d \in SeededBy(s) :
                        \E i \in 1..Len(resp.body) :
                            resp.body[i].id = OidStr(d.oid)

\* The store was empty, the run is over, nothing was posted, and the
\* default listing has just been served: exactly the six samples.
C2_Witness ==
    /\ \E s \in Seeders : pc[s] = "done" /\ sawCount[s] = 0
    /\ posts = 0 /\ Len(products) = 6
    /\ IsGet("list_products") /\ req.category = None /\ req.limit = None
    /\ Fresh /\ Len(resp.body) = 6
    /\ \A i \in 1..6 : SameFields(resp.body[i], samples[i])

(***************************************************************************)
(* C4. After a POST /api/products with a valid payload the response is an  *)
(* id string, and GET /api/products/{that id} answers with a Product whose *)
(* id is that string and whose fields are the posted ones (description     *)
(* null and in_stock true when omitted).                                   *)
(***************************************************************************)
ValidPost ==
    /\ req.method = "POST"
    /\ BodyValid(req.body)
    /\ SchemaValid(ProductCreate(req.body))

C4_PostThenGetRoundTrip ==
    (dbAvailable /\ ValidPost) =>
        /\ resp.status = 200
        /\ LET got == HandleGet(resp.id, None, None)
           IN  /\ got.route = "get_product"
               /\ got.status = 200
               /\ Len(got.body) = 1
               /\ got.body[1].id = resp.id
               /\ SameFields(got.body[1], req.body)

\* A payload with in_stock = false was posted into a seeded collection.
C4_Witness ==
    /\ dbAvailable /\ ValidPost /\ resp.status = 200
    /\ Get(req.body, "in_stock", TRUE) = FALSE
    /\ Len(products) > 1

(***************************************************************************)
(* C5. With the store available GET /api/products/{id} answers 400 for a   *)
(* malformed id, 404 for a well-formed id no product has, and the stored   *)
(* product otherwise; serving it leaves the collection as it was.          *)
(***************************************************************************)
DocsWithId(oid) == {j \in 1..Len(products) : products[j]._id = oid}

C5_Answer ==
    (dbAvailable /\ IsGet("get_product") /\ Fresh) =>
        IF ~OidValid(req.seg) THEN resp.status = 400
        ELSE IF DocsWithId(OidParse(req.seg)) = {} THEN resp.status = 404
        ELSE /\ resp.status = 200
             /\ Len(resp.body) = 1
             /\ resp.body[1].id = req.seg
             /\ \E j \in DocsWithId(OidParse(req.seg)) :
                   SameFields(resp.body[1], products[j])

C5_GetProductStatuses ==
    /\ []C5_Answer
    /\ [][GetStep("get_product") => products' = products]_vars

\* A well-formed id that no document of a non-empty collection has.
C5_Witness ==
    /\ dbAvailable /\ IsGet("get_product") /\ Fresh /\ Len(products) = 1
    /\ resp.status = 404 /\ req.seg = OidStr(2)

(***************************************************************************)
(* C9 as stated: whatever category value is supplied, the empty string     *)
(* included, at most `limit` products are returned and each of them has    *)
(* exactly that category.                                                  *)
(***************************************************************************)
ListServed ==
    /\ dbAvailable /\ IsGet("list_products") /\ Fresh
    /\ QueryInt(req.limit, 24, 1, 100) # None

C9_Claim ==
    (ListServed /\ req.category # None) =>
        /\ Len(resp.body) <= QueryInt(req.limit, 24, 1, 100)[1]
        /\ \A i \in 1..Len(resp.body) :
              resp.body[i].category = req.category[1]

(***************************************************************************)
(* C9 amended: a non-empty category value filters exactly; an omitted or   *)
(* empty category applies no filter; at most `limit` products come back,   *)
(* in store order.  When the collection holds just the six seeded samples, *)
(* category=audio returns exactly "Aurora Pro Headphones".                 *)
(***************************************************************************)
Matching(category) ==
    IF category # None /\ category[1] # ""
    THEN {j \in 1..Len(products) : products[j].category = category[1]}
    ELSE 1..Len(products)

C9_CategoryFilter ==
    ListServed =>
        LET n == QueryInt(req.limit, 24, 1, 100)[1]
            hits == Matching(req.category)
        IN  /\ resp.status = 200
            /\ Len(resp.body) = IF Cardinality(hits) < n THEN Cardinality(hits) ELSE n
            /\ \A i \in 1..Len(resp.body) :
                  \E j \in hits :
                      /\ resp.body[i].id = OidStr(products[j]._id)
                      /\ SameFields(resp.body[i], products[j])
                      /\ Cardinality({k \in hits : k < j}) = i - 1
            /\ (Len(products) = 6 /\ Cardinality(seeded) = 6
                    /\ req.category = Some("audio")) =>
                  /\ Len(resp.body) = 1
                  /\ resp.body[1].title = "Aurora Pro Headphones"

\* category=audio over the six seeded samples plus a posted audio product.
C9_Witness ==
    /\ ListServed /\ req.category = Some("audio") /\ req.limit = None
    /\ Cardinality(seeded) = 6 /\ Len(products) = 7
    /\ Len(resp.body) = 2

(***************************************************************************)
(* C3 as stated: GET /api/products/featured?limit=n, 1 <= n <= 24 (6 when  *)
(* omitted), is served by the featured handler, which answers with at most *)
(* n products, all in stock, most recently created first.                  *)
(***************************************************************************)
CreatedAt(id) ==
    LET j == CHOOSE j \in 1..Len(products) : OidStr(products[j]._id) = id
    IN  products[j].created_at

C3_Claim ==
    (dbAvailable /\ req.method = "GET" /\ req.seg = Featured /\ Fresh
        /\ QueryInt(req.limit, 6, 1, 24) # None) =>
        /\ resp.route = "featured_products"
        /\ resp.status = 200
        /\ Len(resp.body) <= QueryInt(req.limit, 6, 1, 24)[1]
        /\ \A i \in 1..Len(resp.body) : resp.body[i].in_stock
        /\ \A i, j \in 1..Len(resp.body) :
              i < j => CreatedAt(resp.body[i].id) >= CreatedAt(resp.body[j].id)

(***************************************************************************)
(* C6 as stated: GET /api/products with a limit outside [1,100] is         *)
(* answered 400 and the store is not queried.                              *)
(***************************************************************************)
C6_Claim ==
    (IsGet("list_products") /\ req.limit # None
        /\ (req.limit[1] < 1 \/ req.limit[1] > 100)) =>
        (resp.status = 400 /\ resp.calls = 0)

(***************************************************************************)
(* C7 as stated: without a store handle every product handler that runs    *)
(* answers 500 with a detail message and makes no adapter or store call.   *)
(***************************************************************************)
HandlerRan ==
    \/ IsGet("get_product")
    \/ IsGet("list_products") /\ QueryInt(req.limit, 24, 1, 100) # None
    \/ IsGet("featured_products") /\ QueryInt(req.limit, 6, 1, 24) # None
    \/ ValidPost

C7_Claim ==
    (~dbAvailable /\ HandlerRan) =>
        (resp.status = 500 /\ resp.detail # Null /\ resp.calls = 0)

=============================================================================
